---- MODULE Spec2Model ----
(***************************************************************************)
(* A model of the flow and data mapper of wasm-pfc (src/src/parallelize.rs) *)
(* : the module driver Mapper::map, the recursive walker map_helper, the   *)
(* Node model, the tree expander expand_tree with its two helpers, and the *)
(* collapser that main applies to a node of the map returned.              *)
(*                                                                         *)
(* Recursion (map_helper, expand_*_tree_helper) is modelled with explicit  *)
(* stacks of frames.  An action is one iteration of the loop of the frame  *)
(* on top of the stack; an iteration that recurses is cut at the recursive *)
(* call, and the code after the call runs in the action that returns.      *)
(***************************************************************************)
EXTENDS Integers, Sequences, FiniteSets, TLC

VARIABLES
    wasm,        \* the decoded module, as the external parser will yield it
    buf,         \* buf:Vec<u8>, the bytes of the module
    pc,          \* where main is: read, parse, walk, expand, done, exit, panic
    pp,          \* number of top-level parser states read so far
    rd,          \* number of operators the operator parser has read in the body
    node,        \* Mapper::map's local `node` (declared once, line 637)
    nodes,       \* Mapper::map's local `nodes`
    func_types,  \* Mapper::map's local `func_types`
    func_count,  \* Mapper::map's local `func_count`
    func_index,  \* Mapper::map's local `func_index`
    self_blocks, \* Mapper.blocks, the block registry
    self_nodes,  \* Mapper.nodes, the node registry
    wstack,      \* the frames of map_helper, outermost first
    tree,        \* expand_tree's local `tree`
    todo,        \* keys of `nodes` that expand_tree's for loop has not visited
    estack,      \* the frames of expand_func/block_tree_helper, outermost first
    pass,        \* how many times expand_tree has been entered
    first,       \* the map returned by the first expand_tree
    declined,    \* functions whose expansion prompt was answered no
    alloc,       \* the results of unique_block_id, in order of allocation
    collapsed,   \* main's `collapsed_node`
    panic        \* which Rust panic ended the run, "" when none

vars == << wasm, buf, pc, pp, rd, node, nodes, func_types, func_count,
           func_index, self_blocks, self_nodes, wstack, tree, todo, estack,
           pass, first, declined, alloc, collapsed, panic >>

-----------------------------------------------------------------------------
(* Bounds of the model.                                                    *)

\* operators in a module (over all its function bodies, each body's final
\* End included) when the whole pipeline is checked
MaxOps == 6
\* function bodies in a module
MaxFuncs == 2
\* the same bound for the modules the walker alone is checked on
MaxWalkOps == 6
\* operators in the body of the calling function, and of the function it
\* calls, when call chains through nested blocks are checked
MaxCallerOps == 6
MaxCalleeOps == 3
\* operators in a body that need not validate
MaxAnyOps == 3
\* operators in a module whose bodies read parameters
MaxLocalOps == 6
\* operators in the body of the function main collapses, and of a function
\* it calls
MaxRootOps == 4
MaxMidOps == 2
\* reads at the end of a body's bytes, each of which fails
MaxEofReads == 2
\* operators in a body of if and else clauses that register variables
MaxElseOps == 7
\* operators in a body of loads and multiplications
MaxDataOps == 5
\* operators in a function that calls a leaf function from nested blocks
MaxNestOps == 6
\* operators in a module, and functions in it, when the mapper of
\* flow_mapper.rs is checked
MaxFlowOps == 6
MaxFlowFuncs == 3

-----------------------------------------------------------------------------
(* HashMap<usize, _> as a function with a finite domain.                   *)

Empty == << >>

Put(m, k, v) == [x \in (DOMAIN m) \cup {k} |-> IF x = k THEN v ELSE m[x]]

Remove(m, k) == [x \in (DOMAIN m) \ {k} |-> m[x]]

Has(m, k) == k \in DOMAIN m

Size(m) == Cardinality(DOMAIN m)

SetMax(S) == CHOOSE x \in S : \A y \in S : y <= x

SetMin(S) == CHOOSE x \in S : \A y \in S : x <= y

RECURSIVE Concat(_)
Concat(ss) == IF ss = << >> THEN << >> ELSE Head(ss) \o Concat(Tail(ss))

-----------------------------------------------------------------------------
(* The input: operators and the bytes they are decoded from.               *)

Op(name, a, ty) == [op |-> name, a |-> a, ty |-> ty]

TypeByte(ty) ==
    CASE ty = "I32" -> 127
      [] ty = "I64" -> 126
      [] ty = "F32" -> 125
      [] ty = "F64" -> 124
      [] OTHER      -> 64

\* the operators the load arms of the walker name, V128Load apart: a name
\* with the type I32 or I64 is the operator of that prefix (I32Load8S is
\* Load8S of type I32)
Loads ==
    { "Load", "Load8S", "Load8U", "Load16S", "Load16U", "Load32S", "Load32U",
      "AtomicLoad", "AtomicLoad8U", "AtomicLoad16U", "AtomicLoad32U" }

\* the binary encoding of one operator (opcode, then its immediates)
OpBytes(o) ==
    CASE o.op = "Nop"          -> << 1 >>
      [] o.op = "Block"        -> << 2, TypeByte(o.ty) >>
      [] o.op = "Loop"         -> << 3, TypeByte(o.ty) >>
      [] o.op = "If"           -> << 4, TypeByte(o.ty) >>
      [] o.op = "Else"         -> << 5 >>
      [] o.op = "End"          -> << 11 >>
      [] o.op = "Br"           -> << 12, o.a >>
      [] o.op = "BrIf"         -> << 13, o.a >>
      [] o.op = "Return"       -> << 15 >>
      [] o.op = "Call"         -> << 16, o.a >>
      [] o.op = "CallIndirect" -> << 17, 0, o.a >>
      [] o.op = "Drop"         -> << 26 >>
      [] o.op = "GetLocal"     -> << 32, o.a >>
      [] o.op = "GetGlobal"    -> << 35, o.a >>
      [] o.op = "SetGlobal"    -> << 36, o.a >>
      [] o.op = "Load"         -> << 40 + (127 - TypeByte(o.ty)), 2, o.a >>
      [] o.op = "Load8S"       -> << IF o.ty = "I32" THEN 44 ELSE 48, 0, o.a >>
      [] o.op = "Load8U"       -> << IF o.ty = "I32" THEN 45 ELSE 49, 0, o.a >>
      [] o.op = "Load16S"      -> << IF o.ty = "I32" THEN 46 ELSE 50, 1, o.a >>
      [] o.op = "Load16U"      -> << IF o.ty = "I32" THEN 47 ELSE 51, 1, o.a >>
      [] o.op = "Load32S"      -> << 52, 2, o.a >>
      [] o.op = "Load32U"      -> << 53, 2, o.a >>
      [] o.op = "AtomicLoad"   -> << 254, IF o.ty = "I32" THEN 16 ELSE 17, 2, o.a >>
      [] o.op = "AtomicLoad8U" -> << 254, IF o.ty = "I32" THEN 18 ELSE 20, 0, o.a >>
      [] o.op = "AtomicLoad16U" -> << 254, IF o.ty = "I32" THEN 19 ELSE 21, 1, o.a >>
      [] o.op = "AtomicLoad32U" -> << 254, 22, 2, o.a >>
      [] o.op = "V128Load"     -> << 253, 0, 4, o.a >>
      [] o.op = "Store"        -> << 54 + (127 - TypeByte(o.ty)), 2, o.a >>
      [] o.op = "Const"        ->
            CASE o.ty = "F32" -> << 67, o.a, 0, 0, 0 >>
              [] o.ty = "F64" -> << 68, o.a, 0, 0, 0, 0, 0, 0, 0 >>
              [] OTHER        -> << 65 + (127 - TypeByte(o.ty)), o.a >>
      [] o.op = "Add"          ->
            << CASE o.ty = "I64" -> 124 [] o.ty = "F32" -> 146 [] o.ty = "F64" -> 160
                 [] OTHER -> 106 >>
      [] o.op = "Mul"          ->
            << CASE o.ty = "I64" -> 126 [] o.ty = "F32" -> 148 [] o.ty = "F64" -> 162
                 [] OTHER -> 108 >>
      [] OTHER                 -> << 0 >>

\* a function body: the (empty) local declarations, then the operators
BodyBytes(body) == << 0 >> \o Concat([k \in 1..Len(body) |-> OpBytes(body[k])])

SigBytes(sig) ==
    << 96, Len(sig.params) >> \o [k \in 1..Len(sig.params) |-> TypeByte(sig.params[k])]
    \o << Len(sig.returns) >> \o [k \in 1..Len(sig.returns) |-> TypeByte(sig.returns[k])]

Section(id, count, payload) == << id, Len(payload) + 1, count >> \o payload

\* an import of a function of type t, from module "m", field "f"
ImportBytes(t) == << 1, 109, 1, 102, 0, t >>

\* the bytes before the first function body's size byte: the type, import,
\* function, memory and global sections, then the code section's header
Preamble(w) ==
    << 0, 97, 115, 109, 1, 0, 0, 0 >>
    \o Section(1, Len(w.types), Concat([k \in 1..Len(w.types) |-> SigBytes(w.types[k])]))
    \o Section(2, Len(w.imports), Concat([k \in 1..Len(w.imports) |-> ImportBytes(w.imports[k])]))
    \o Section(3, Len(w.funcs), [k \in 1..Len(w.funcs) |-> w.funcs[k].ty])
    \o Section(5, 1, << 0, 1 >>)
    \o Section(6, Len(w.globals),
               Concat([k \in 1..Len(w.globals) |-> << TypeByte(w.globals[k]), 1, 65, 0, 11 >>]))

CodeBytes(w) ==
    Concat([k \in 1..Len(w.funcs) |->
              << Len(BodyBytes(w.funcs[k].body)) >> \o BodyBytes(w.funcs[k].body)])

Encode(w) == Preamble(w) \o Section(10, Len(w.funcs), CodeBytes(w))

\* BeginFunctionBody { range } of the k-th body (k counted from 1)
RangeStart(w, k) ==
    Len(Preamble(w)) + 3
    + Len(Concat([j \in 1..(k - 1) |->
                    << 0 >> \o BodyBytes(w.funcs[j].body)]))
    + 1

RangeEnd(w, k) == RangeStart(w, k) + Len(BodyBytes(w.funcs[k].body))

\* ValidatingOperatorParser::current_position after n operators of a body
current_position(body, n) == Len(BodyBytes(SubSeq(body, 1, n)))

\* the states the top-level parser yields for a module
ParserStates(w) ==
    << [st |-> "BeginWasm", a |-> 0] >>
    \o [k \in 1..Len(w.imports) |-> [st |-> "ImportSectionEntry", a |-> w.imports[k]]]
    \o [k \in 1..Len(w.funcs) |-> [st |-> "FunctionSectionEntry", a |-> w.funcs[k].ty]]
    \o [k \in 1..Len(w.funcs) |-> [st |-> "BeginFunctionBody", a |-> k]]
    \o << [st |-> "EndWasm", a |-> 0] >>

-----------------------------------------------------------------------------
(* The validator of the operator parser.  reader.next(resources) yields an *)
(* operator only when the body validates up to it; the modules the program *)
(* is run on are the ones every operator of which validates.  All operands *)
(* of these modules are i32, so that the validator's operand stack is      *)
(* known by its height in every open control frame.                        *)

Arity(ty) == IF ty = "EmptyBlockType" THEN 0 ELSE 1

Ctl(kind, arity) == [kind |-> kind, arity |-> arity, h |-> 0, unr |-> FALSE]

Invalid == [ok |-> FALSE, ctl |-> << >>]

Validated(ctl) == [ok |-> TRUE, ctl |-> ctl]

\* the innermost frame pops n operands, then pushes m
Operands(ctl, n, m) ==
    LET f == ctl[Len(ctl)] IN
    IF f.h >= n THEN Validated([ctl EXCEPT ![Len(ctl)].h = @ - n + m])
    ELSE IF f.unr THEN Validated([ctl EXCEPT ![Len(ctl)].h = m])
    ELSE Invalid

Closes(f) == f.h = f.arity \/ (f.unr /\ f.h <= f.arity)

\* ctx: the signatures of the function index space (imports first), the
\* number of parameters and of results of the function validated, the number
\* of globals
Validate(ctl, o, ctx) ==
    LET f == ctl[Len(ctl)] IN
    CASE o.op = "Nop" -> Validated(ctl)
      [] o.op = "Const" -> Operands(ctl, 0, 1)
      [] o.op = "GetLocal" -> IF o.a < ctx.params THEN Operands(ctl, 0, 1) ELSE Invalid
      [] o.op = "GetGlobal" -> IF o.a < ctx.globals THEN Operands(ctl, 0, 1) ELSE Invalid
      [] o.op = "SetGlobal" -> IF o.a < ctx.globals THEN Operands(ctl, 1, 0) ELSE Invalid
      [] o.op \in Loads \cup {"V128Load"} -> Operands(ctl, 1, 1)
      [] o.op \in {"Add", "Mul"} -> Operands(ctl, 2, 1)
      [] o.op = "Store" -> Operands(ctl, 2, 0)
      [] o.op = "Drop" -> Operands(ctl, 1, 0)
      [] o.op = "Call" ->
            IF o.a < Len(ctx.sigs)
            THEN Operands(ctl, Len(ctx.sigs[o.a + 1].params), Len(ctx.sigs[o.a + 1].returns))
            ELSE Invalid
      [] o.op \in {"Block", "Loop"} -> Validated(Append(ctl, Ctl(o.op, Arity(o.ty))))
      [] o.op = "If" ->
            LET r == Operands(ctl, 1, 0)
            IN IF r.ok THEN Validated(Append(r.ctl, Ctl("If", Arity(o.ty)))) ELSE Invalid
      [] o.op = "Else" ->
            IF f.kind = "If" /\ Closes(f)
            THEN Validated([ctl EXCEPT ![Len(ctl)] = Ctl("Else", f.arity)])
            ELSE Invalid
      [] o.op = "End" ->
            IF Closes(f) /\ ~(f.kind = "If" /\ f.arity > 0)
            THEN IF Len(ctl) = 1 THEN Validated(<< >>)
                 ELSE Operands(SubSeq(ctl, 1, Len(ctl) - 1), 0, f.arity)
            ELSE Invalid
      [] o.op = "Return" ->
            LET r == Operands(ctl, ctx.returns, 0)
            IN IF r.ok
               THEN Validated([r.ctl EXCEPT ![Len(ctl)].h = 0, ![Len(ctl)].unr = TRUE])
               ELSE Invalid
      [] OTHER -> Invalid

\* the bodies that validate and extend the prefix b, whose open control
\* frames are ctl, by at most n operators; a prefix with more open frames
\* than operators left cannot be finished
RECURSIVE Grow(_, _, _, _, _)
Grow(b, ctl, alphabet, n, ctx) ==
    IF n = 0 THEN {}
    ELSE UNION { LET v == Validate(ctl, o, ctx)
                 IN IF ~v.ok \/ Len(v.ctl) > n - 1 THEN {}
                    ELSE IF v.ctl = << >> THEN { Append(b, o) }
                    ELSE Grow(Append(b, o), v.ctl, alphabet, n - 1, ctx) :
                 o \in alphabet }

Bodies(alphabet, n, ctx) == Grow(<< >>, << Ctl("func", ctx.returns) >>, alphabet, n, ctx)

\* the validator's judgement of a whole body
RECURSIVE Validates(_, _, _, _)
Validates(ctl, ops, k, ctx) ==
    IF k > Len(ops) THEN FALSE
    ELSE LET v == Validate(ctl, ops[k], ctx)
         IN /\ v.ok
            /\ IF v.ctl = << >> THEN k = Len(ops) ELSE Validates(v.ctl, ops, k + 1, ctx)

\* the function type of index t of a module; a type the type table does not
\* hold has no parameters and no results
TypeOf(w, t) ==
    IF t < Len(w.types) THEN w.types[t + 1] ELSE [params |-> << >>, returns |-> << >>]

\* the signatures of the function index space of a module: imports first
SigsOf(w) ==
    [k \in 1..(Len(w.imports) + Len(w.funcs)) |->
        TypeOf(w, IF k <= Len(w.imports) THEN w.imports[k]
                  ELSE w.funcs[k - Len(w.imports)].ty)]

ContextOf(w, k) ==
    [sigs |-> SigsOf(w), params |-> Len(TypeOf(w, w.funcs[k].ty).params),
     returns |-> Len(TypeOf(w, w.funcs[k].ty).returns), globals |-> Len(w.globals)]

\* the control stack of the operator validator after k reads of the body b:
\* a read that fails leaves it as it was
RECURSIVE validator(_, _, _)
validator(b, ctx, k) ==
    IF k = 0 THEN << Ctl("func", ctx.returns) >>
    ELSE LET c == validator(b, ctx, k - 1)
         IN IF c = << >> THEN c
            ELSE LET v == Validate(c, b[k], ctx) IN IF v.ok THEN v.ctl ELSE c

\* reader.next(resources) is Ok at the k-th read of the body b: there is an
\* operator to read, and it validates
next_ok(b, ctx, k) ==
    /\ k <= Len(b)
    /\ validator(b, ctx, k - 1) # << >>
    /\ Validate(validator(b, ctx, k - 1), b[k], ctx).ok

ValidModule(w) ==
    \A k \in 1..Len(w.funcs) :
        Validates(<< Ctl("func", ContextOf(w, k).returns) >>, w.funcs[k].body, 1, ContextOf(w, k))

\* the sequences of functions of the types tys[k..], with bodies of B, of n
\* operators in all
RECURSIVE Funcs(_, _, _, _)
Funcs(B, tys, k, n) ==
    IF k > Len(tys) THEN { << >> }
    ELSE UNION { { << [ty |-> tys[k], body |-> b] >> \o rest :
                     rest \in Funcs(B, tys, k + 1, n - Len(b)) } :
                 b \in { x \in B[tys[k]] : Len(x) <= n - (Len(tys) - k) } }

\* a shape is what a module declares before its code: the types of its
\* imported functions and of its own functions
RECURSIVE TypeSeqs(_, _)
TypeSeqs(tys, k) ==
    IF k = 0 THEN { << >> }
    ELSE { << >> } \cup { << t >> \o r : t \in tys, r \in TypeSeqs(tys, k - 1) }

Shapes(imps, tys, k) == { [imports |-> i, tys |-> t] : i \in imps, t \in TypeSeqs(tys, k) }

\* the modules of these shapes, with bodies of B[type], that validate
Modules(types, globals, shapes, B, n) ==
    { w \in UNION { { [types |-> types, globals |-> globals,
                       imports |-> shape.imports, funcs |-> f] :
                         f \in Funcs(B, shape.tys, 1, n) } : shape \in shapes } :
        ValidModule(w) }

-----------------------------------------------------------------------------
(* The Node model.                                                         *)

Node_default ==
    [ id |-> 0, instrs |-> << >>, branches |-> Empty, calls |-> Empty,
      start |-> 0, end |-> 0, children |-> Empty, blocks |-> Empty,
      internal_variables |-> Empty, input_variables |-> Empty,
      output_variables |-> Empty, constants |-> Empty,
      flow_control_couplings |-> Empty, input_data_couplings |-> Empty,
      output_data_couplings |-> Empty, global_input_data_couplings |-> Empty,
      global_output_data_couplings |-> Empty, operations |-> Empty ]

set_id(n, id) == [n EXCEPT !.id = id]

set_start(n, start) == [n EXCEPT !.start = start]

set_end(n, end) == [n EXCEPT !.end = end]

\* add_internal_variable registers under i and returns i - 1
add_internal_variable(n, i, ty) == [n EXCEPT !.internal_variables = Put(@, i, ty)]

internal_variable_id(i) == i - 1

input_variable_id(n) == n.id + Size(n.input_variables)

add_input_variable(n, ty) ==
    [n EXCEPT !.input_variables = Put(@, input_variable_id(n), ty)]

\* Node::input_variable_is_param: no global or memory input coupling has
\* the variable as its value
input_variable_is_param(n, var_id) ==
    /\ \A loc \in DOMAIN n.global_input_data_couplings :
          n.global_input_data_couplings[loc] # var_id
    /\ \A loc \in DOMAIN n.input_data_couplings :
          n.input_data_couplings[loc] # var_id

output_variable_id(n) == n.id + Size(n.output_variables)

add_output_variable(n, ty) ==
    [n EXCEPT !.output_variables = Put(@, output_variable_id(n), ty)]

constant_id(n) == n.id + 1 + Size(n.constants)

add_constant(n, ty) == [n EXCEPT !.constants = Put(@, constant_id(n), ty)]

add_operation(n, i, op) == [n EXCEPT !.operations = Put(@, i, op)]

add_flow_control_coupling(n, i, var_id) ==
    [n EXCEPT !.flow_control_couplings = Put(@, i, var_id)]

add_input_data_coupling(n, memarg, var_id) ==
    [n EXCEPT !.input_data_couplings = Put(@, memarg, var_id)]

add_output_data_coupling(n, memarg, var_id) ==
    [n EXCEPT !.output_data_couplings = Put(@, memarg, var_id)]

add_global_input_data_coupling(n, memarg, var_id) ==
    [n EXCEPT !.global_input_data_couplings = Put(@, memarg, var_id)]

add_global_output_data_coupling(n, memarg, var_id) ==
    [n EXCEPT !.global_output_data_couplings = Put(@, memarg, var_id)]

add_branch(n, branch_index, relative_depth) ==
    [n EXCEPT !.branches = Put(@, branch_index, relative_depth)]

node_add_block(n, start_index, block_index) ==
    [n EXCEPT !.blocks = Put(@, start_index, block_index)]

add_call(n, call_index, function_index) ==
    [n EXCEPT !.calls = Put(@, call_index, function_index)]

add_child(n, index, child) == [n EXCEPT !.children = Put(@, index, child)]

has_child(n, key) == Has(n.children, key)

get_first_input_variable(n) ==
    IF DOMAIN n.input_variables = {} THEN "AnyRef"
    ELSE n.input_variables[SetMin(DOMAIN n.input_variables)]

get_first_flow_control_coupling(n) ==
    IF DOMAIN n.flow_control_couplings = {} THEN 0
    ELSE n.flow_control_couplings[SetMin(DOMAIN n.flow_control_couplings)]

\* a slice taken as if Vec<u8> were indexed from one
SliceFromOne(bytes, start, end) == SubSeq(bytes, start, end)

\* buf[start..end].to_vec(); the caller checks start <= end <= len
Slice(bytes, start, end) == SubSeq(bytes, start + 1, end)

SliceInRange(bytes, start, end) == start <= end /\ end <= Len(bytes)

\* remove_instrs indexes old_instrs[i] for every i < start
remove_instrs_panics(n, start) == start > Len(n.instrs)

remove_instrs(n, start, end) ==
    [n EXCEPT !.instrs = SubSeq(@, 1, start)
                         \o (IF end < Len(@) THEN SubSeq(@, end + 1, Len(@)) ELSE << >>)]

Spin(id) == [e |-> "Spin", id |-> id, ty |-> "none"]

AddExpr(ty) == [e |-> "Add", id |-> 0, ty |-> ty]

MulExpr(ty) == [e |-> "Mul", id |-> 0, ty |-> ty]

-----------------------------------------------------------------------------
(* The Mapper's registries.                                                *)

\* Mapper::add_block: the index the block is registered under
add_block_index(blocks) ==
    IF DOMAIN blocks = {} THEN 0 ELSE SetMax(DOMAIN blocks) + 1

unique_block_id(registry) ==
    (IF DOMAIN registry = {} THEN 0 ELSE SetMax(DOMAIN registry)) + 1

\* Mapper::attach_signature indexes func_types and resources.types()
attach_signature_panics(w, count, types) ==
    \/ count < 1 \/ count > Len(types)
    \/ types[count] + 1 > Len(w.types)

RECURSIVE add_variables(_, _, _)
add_variables(n, tys, input) ==
    IF tys = << >> THEN n
    ELSE add_variables(IF input THEN add_input_variable(n, Head(tys))
                       ELSE add_output_variable(n, Head(tys)),
                       Tail(tys), input)

attach_signature(w, n, count, types) ==
    LET sig == w.types[types[count] + 1]
    IN add_variables(add_variables(n, sig.params, TRUE), sig.returns, FALSE)

-----------------------------------------------------------------------------
(* map_helper: the walker.                                                 *)

body == wasm.funcs[func_index + 1].body

top == wstack[Len(wstack)]

Frame(kind, n, start, index, outer, inner) ==
    [ kind |-> kind, node |-> set_id(set_start(n, start), index),
      start |-> start, i |-> 0, outer |-> outer, inner |-> inner ]

\* `read` of the next iteration is Ok
read_ok == next_ok(body, ContextOf(wasm, func_index + 1), rd + 1)

Reading(names) ==
    /\ pc = "walk"
    /\ rd < Len(body)
    /\ body[rd + 1].op \in names
    /\ read_ok

\* the frame on top goes on to its next read with node n
WalkOn(n) ==
    /\ wstack' = [wstack EXCEPT ![Len(wstack)] = [@ EXCEPT !.node = n, !.i = @ + 1]]
    /\ rd' = rd + 1
    /\ UNCHANGED << wasm, buf, collapsed, pc, pp, node, nodes, func_types, func_count,
                    func_index, self_blocks, self_nodes, tree, todo, estack,
                    pass, first, declined, alloc, panic >>

\* the frame on top calls map_helper(reader, buf, resources, position, i, child)
WalkInto(n, kind, child, outer, inner) ==
    /\ wstack' = Append([wstack EXCEPT ![Len(wstack)] = [@ EXCEPT !.node = n, !.i = @ + 1]],
                        Frame(kind, child, current_position(body, rd + 1), top.i + 1,
                              outer, inner))
    /\ rd' = rd + 1
    /\ UNCHANGED << wasm, buf, collapsed, pc, pp, node, nodes, func_types, func_count,
                    func_index, self_blocks, self_nodes, tree, todo, estack,
                    pass, first, declined, alloc, panic >>

\* the frame fr has left its loop: it slices its instructions and returns to
\* the arm that called it, which runs to its end; an Else arm ends with a
\* break, so that its frame returns too
RECURSIVE map_helper_return(_, _, _)
map_helper_return(callers, blocks, fr) ==
    IF ~SliceInRange(buf, fr.start, fr.node.end)
    THEN [panic |-> "slice", callers |-> callers, blocks |-> blocks, node |-> fr.node]
    ELSE
    LET n == [fr.node EXCEPT !.instrs = Slice(buf, fr.start, fr.node.end)] IN
    IF fr.kind = "func"
    THEN [panic |-> "", callers |-> callers, blocks |-> blocks, node |-> n]
    ELSE
    LET parent == callers[Len(callers)]
        rest == SubSeq(callers, 1, Len(callers) - 1)
        id == add_block_index(blocks)
        registry == Put(blocks, id, n)
    IN CASE fr.kind \in {"block", "loop"} ->
              [ panic |-> "", blocks |-> registry, node |-> n,
                callers |-> Append(rest,
                    [parent EXCEPT !.node = node_add_block(@, parent.i, id)]) ]
         [] fr.kind = "if" ->
              [ panic |-> "", blocks |-> registry, node |-> n,
                callers |-> Append(rest,
                    [parent EXCEPT !.node =
                        add_operation(node_add_block(@, parent.i, id),
                                      parent.i, Spin(fr.outer))]) ]
         [] OTHER ->
              map_helper_return(rest, registry,
                  [parent EXCEPT !.node =
                      node_add_block(set_end(@, n.end), parent.i, id)])

WalkIgnored ==
    /\ Reading({"Nop", "Drop"})
    /\ WalkOn(top.node)

WalkBlock ==
    /\ Reading({"Block"})
    /\ WalkInto(top.node, "block", Node_default, 0, 0)

WalkLoop ==
    /\ Reading({"Loop"})
    /\ WalkInto(top.node, "loop", Node_default, 0, 0)

WalkIf ==
    /\ Reading({"If"})
    /\ LET ty == body[rd + 1].ty
           i == top.i + 1
           outer_var_id == internal_variable_id(i)
           inner_var_id == input_variable_id(Node_default)
           conditional_node ==
               add_flow_control_coupling(add_input_variable(Node_default, ty),
                                         outer_var_id, inner_var_id)
       IN WalkInto(add_internal_variable(top.node, i, ty), "if", conditional_node,
                   outer_var_id, inner_var_id)

\* the test of the Else arm without its count of the input variables
has_one_coupling(n) == Size(n.flow_control_couplings) = 1

\* the test of the Else arm (line 1008)
in_conditional(n) == Size(n.flow_control_couplings) = 1 /\ Size(n.input_variables) = 1

WalkElse ==
    /\ Reading({"Else"})
    /\ in_conditional(top.node)
    /\ LET inner_var_id == input_variable_id(Node_default)
           else_node ==
               add_flow_control_coupling(
                   add_input_variable(Node_default, get_first_input_variable(top.node)),
                   get_first_flow_control_coupling(top.node), inner_var_id)
       IN WalkInto(top.node, "else", else_node, 0, inner_var_id)

WalkElseIgnored ==
    /\ Reading({"Else"})
    /\ ~in_conditional(top.node)
    /\ WalkOn(top.node)

\* the End / Return arm, and what follows the loop in every frame that
\* returns; when the function's frame returns, Mapper::map attaches the
\* signature and registers the node
end_of(fr, position) ==
    IF fr.node.end = 0 THEN set_end(fr.node, position + fr.start) ELSE fr.node

WalkEnd ==
    /\ Reading({"End", "Return"})
    /\ LET fr == [top EXCEPT !.node = end_of(top, current_position(body, rd + 1)),
                             !.i = @ + 1]
           r == map_helper_return(SubSeq(wstack, 1, Len(wstack) - 1), self_blocks, fr)
       IN /\ rd' = rd + 1
          /\ self_blocks' = r.blocks
          /\ IF r.panic # ""
             THEN /\ pc' = "panic" /\ panic' = r.panic
                  /\ wstack' = r.callers
                  /\ UNCHANGED << node, nodes, self_nodes >>
             ELSE IF r.callers # << >>
             THEN /\ wstack' = r.callers
                  /\ UNCHANGED << pc, panic, node, nodes, self_nodes >>
             ELSE IF attach_signature_panics(wasm, func_count, func_types)
             THEN /\ pc' = "panic" /\ panic' = "signature"
                  /\ wstack' = << >>
                  /\ node' = r.node
                  /\ UNCHANGED << nodes, self_nodes >>
             ELSE LET n == attach_signature(wasm, r.node, func_count, func_types)
                  IN /\ node' = n
                     /\ self_nodes' = Put(self_nodes, func_index, n)
                     /\ nodes' = Put(nodes, func_index, n)
                     /\ wstack' = << >>
                     /\ pc' = "parse"
                     /\ UNCHANGED panic
    /\ UNCHANGED << wasm, buf, collapsed, pp, func_types, func_count, func_index, tree,
                    todo, estack, pass, first, declined, alloc >>

WalkBr ==
    /\ Reading({"Br", "BrIf"})
    /\ WalkOn(add_branch(top.node, top.i + 1, body[rd + 1].a))

WalkCall ==
    /\ Reading({"Call"})
    /\ WalkOn(add_call(top.node, top.i + 1, body[rd + 1].a))

WalkCallIndirect ==
    /\ Reading({"CallIndirect"})
    /\ WalkOn(add_call(top.node, top.i + 1, body[rd + 1].a))

\* `self` of this arm is the Mapper, which has neither get_input_variables
\* nor id: the arm is taken on `node`, the one receiver in scope that has
\* both.  local_vars[var_id] indexes a HashMap, which panics on a key it
\* does not hold.
WalkGetLocal ==
    /\ Reading({"GetLocal"})
    /\ LET local_vars == top.node.input_variables
           var_id == top.node.id + body[rd + 1].a
       IN IF Has(local_vars, var_id)
          THEN WalkOn(add_operation(top.node, top.i + 1, Spin(var_id)))
          ELSE /\ pc' = "panic"
               /\ panic' = "local_vars"
               /\ rd' = rd + 1
               /\ wstack' = [wstack EXCEPT ![Len(wstack)].i = @ + 1]
               /\ UNCHANGED << wasm, buf, collapsed, pp, node, nodes, func_types, func_count,
                               func_index, self_blocks, self_nodes, tree, todo,
                               estack, pass, first, declined, alloc >>

WalkGetGlobal ==
    /\ Reading({"GetGlobal"})
    /\ LET g == body[rd + 1].a
           var_id == input_variable_id(top.node)
       IN WalkOn(add_global_input_data_coupling(
                     add_input_variable(top.node, wasm.globals[g + 1]), g, var_id))

WalkSetGlobal ==
    /\ Reading({"SetGlobal"})
    /\ LET g == body[rd + 1].a
           var_id == output_variable_id(top.node)
       IN WalkOn(add_global_output_data_coupling(
                     add_output_variable(top.node, wasm.globals[g + 1]), g, var_id))

WalkLoad ==
    /\ Reading(Loads)
    /\ LET var_id == input_variable_id(top.node)
       IN WalkOn(add_input_data_coupling(
                     add_input_variable(top.node, body[rd + 1].ty),
                     body[rd + 1].a, var_id))

\* the V128Load arm sets the colour of the output
WalkV128Load ==
    /\ Reading({"V128Load"})
    /\ WalkOn(top.node)

WalkStore ==
    /\ Reading({"Store"})
    /\ LET var_id == output_variable_id(top.node)
       IN WalkOn(add_output_data_coupling(
                     add_output_variable(top.node, body[rd + 1].ty),
                     body[rd + 1].a, var_id))

WalkConst ==
    /\ Reading({"Const"})
    /\ WalkOn(add_constant(top.node, body[rd + 1].ty))

\* the I32Mul and F32Mul arms
WalkMul ==
    /\ Reading({"Mul"})
    /\ body[rd + 1].ty \in {"I32", "F32"}
    /\ WalkOn(add_operation(top.node, top.i + 1, MulExpr(body[rd + 1].ty)))

\* I64Mul and F64Mul are in the arms of the I64 and F64 arithmetic that do
\* nothing
WalkMulTodo ==
    /\ Reading({"Mul"})
    /\ body[rd + 1].ty \in {"I64", "F64"}
    /\ WalkOn(top.node)

\* `read` is an error: the else branch prints it and the loop goes on; the
\* reader has advanced past an operator that does not validate, and has
\* nothing to advance past at the end of the body's bytes
WalkBadWasm ==
    /\ pc = "walk"
    /\ ~read_ok
    /\ IF rd < Len(body) THEN rd' = rd + 1
       ELSE rd' = rd /\ top.i < Len(body) + MaxEofReads
    /\ wstack' = [wstack EXCEPT ![Len(wstack)].i = @ + 1]
    /\ UNCHANGED << wasm, buf, collapsed, pc, pp, node, nodes, func_types, func_count,
                    func_index, self_blocks, self_nodes, tree, todo, estack,
                    pass, first, declined, alloc, panic >>

-----------------------------------------------------------------------------
(* Mapper::map: the module driver.                                          *)

Parsing(st) ==
    /\ pc = "parse"
    /\ pp < Len(ParserStates(wasm))
    /\ ParserStates(wasm)[pp + 1].st = st

\* the `_` arm: every state the match does not name
ParseOther ==
    /\ pc = "parse"
    /\ pp < Len(ParserStates(wasm))
    /\ ParserStates(wasm)[pp + 1].st \in {"BeginWasm", "ImportSectionEntry"}
    /\ pp' = pp + 1
    /\ UNCHANGED << wasm, buf, collapsed, pc, rd, node, nodes, func_types, func_count,
                    func_index, self_blocks, self_nodes, wstack, tree, todo,
                    estack, pass, first, declined, alloc, panic >>

ParseFunctionSectionEntry ==
    /\ Parsing("FunctionSectionEntry")
    /\ pp' = pp + 1
    /\ func_types' = Append(func_types, ParserStates(wasm)[pp + 1].a)
    /\ UNCHANGED << wasm, buf, collapsed, pc, rd, node, nodes, func_count, func_index,
                    self_blocks, self_nodes, wstack, tree, todo, estack, pass,
                    first, declined, alloc, panic >>

\* the Error arm prints the error and, alone among the arms, neither
\* continues nor breaks: the code after the match runs up to the request of
\* an operator parser, which the parser refuses when its last state is not
\* BeginFunctionBody.  The validating parser may report as an error a
\* function section entry whose type index the type table does not hold.
ParseError ==
    /\ Parsing("FunctionSectionEntry")
    /\ ParserStates(wasm)[pp + 1].a >= Len(wasm.types)
    /\ pp' = pp + 1
    /\ func_count' = func_count + 1
    /\ pc' = "panic"
    /\ panic' = "reader"
    /\ UNCHANGED << wasm, buf, collapsed, rd, node, nodes, func_types, func_index,
                    self_blocks, self_nodes, wstack, tree, todo, estack, pass,
                    first, declined, alloc >>

\* up to the call of map_helper; WalkEnd has the rest of the iteration
ParseBeginFunctionBody ==
    /\ Parsing("BeginFunctionBody")
    /\ LET k == ParserStates(wasm)[pp + 1].a
           func_start == RangeStart(wasm, k)
           func_end == RangeEnd(wasm, k)
           n == set_end(node, func_end)
       IN /\ node' = n
          /\ func_index' = k - 1
          /\ func_count' = func_count + 1
          /\ wstack' = << Frame("func", n, func_start, k - 1, 0, 0) >>
    /\ pp' = pp + 1
    /\ rd' = 0
    /\ pc' = "walk"
    /\ UNCHANGED << wasm, buf, collapsed, nodes, func_types, self_blocks, self_nodes,
                    tree, todo, estack, pass, first, declined, alloc, panic >>

\* EndWasm taken through the code that follows the match: the node declared
\* before the loop is registered, then the loop breaks
ParseEndWasmRegisters ==
    /\ Parsing("EndWasm")
    /\ pp' = pp + 1
    /\ nodes' = Put(nodes, func_index, node)
    /\ self_nodes' = Put(self_nodes, func_index, node)
    /\ tree' = nodes'
    /\ todo' = DOMAIN nodes'
    /\ pass' = 1
    /\ pc' = "expand"
    /\ UNCHANGED << wasm, buf, collapsed, rd, node, func_types, func_count, func_index,
                    self_blocks, wstack, estack, first, declined, alloc, panic >>

\* the loop breaks and map calls expand_tree(nodes)
ParseEndWasm ==
    /\ Parsing("EndWasm")
    /\ pp' = pp + 1
    /\ tree' = nodes
    /\ todo' = DOMAIN nodes
    /\ pass' = 1
    /\ pc' = IF DOMAIN nodes = {} THEN "done" ELSE "expand"
    /\ first' = IF DOMAIN nodes = {} THEN nodes ELSE first
    /\ UNCHANGED << wasm, buf, collapsed, rd, node, nodes, func_types, func_count,
                    func_index, self_blocks, self_nodes, wstack, estack,
                    declined, alloc, panic >>

-----------------------------------------------------------------------------
(* expand_tree and its helpers: the tree expander.                         *)
(*                                                                         *)
(* path_nodes is a HashMap<usize, Node> of which the code reads the keys   *)
(* only (contains_key); the model keeps its key set.  The for loops run    *)
(* over HashMaps, whose iteration order is arbitrary: each iteration takes *)
(* any entry not yet visited.                                              *)

etop == estack[Len(estack)]

NoCall == [key |-> 0, lifted |-> FALSE, raw |-> Node_default]

\* after the loop over the blocks: the node is put back in the tree and the
\* calls are read (lines 779-785, 845-851)
enter_calls(fr) ==
    IF fr.phase = "blocks" /\ fr.pblocks = {}
    THEN [fr EXCEPT !.phase = "calls",
                    !.tree = Put(Remove(fr.tree, fr.node_id), fr.node_id, fr.node),
                    !.calls = fr.node.calls,
                    !.pcalls = DOMAIN fr.node.calls]
    ELSE fr

\* the entry of expand_func_tree_helper / expand_block_tree_helper
Helper(kind, n, node_id, nodes_arg, path_nodes) ==
    enter_calls([ kind |-> kind, node |-> n, node_id |-> node_id, tree |-> nodes_arg,
                  path_nodes |-> path_nodes, phase |-> "blocks",
                  blocks |-> n.blocks, pblocks |-> DOMAIN n.blocks,
                  calls |-> Empty, pcalls |-> {}, cur |-> NoCall, att |-> << >> ])

Expanding(kind, phase) ==
    /\ pc = "expand"
    /\ estack # << >>
    /\ etop.kind = kind
    /\ etop.phase = phase

ExpandFrame == << wasm, buf, collapsed, pp, rd, node, nodes, func_types, func_count, func_index,
                  self_blocks, wstack, pass, first, declined >>

\* expand_tree: the prompt is answered no
ExpandTreeSkip ==
    /\ pc = "expand"
    /\ estack = << >>
    /\ \E index \in todo :
          /\ todo' = todo \ {index}
          /\ declined' = declined \cup {index}
          /\ pc' = IF todo' = {} THEN "done" ELSE "expand"
          /\ first' = IF todo' = {} /\ pass = 1 THEN tree ELSE first
    /\ UNCHANGED << wasm, buf, collapsed, pp, rd, node, nodes, func_types, func_count,
                    func_index, self_blocks, self_nodes, wstack, tree, estack,
                    pass, alloc, panic >>

\* the entry nodes[index] of the map expand_tree iterates over
expand_tree_arg(index) == IF pass = 1 THEN nodes[index] ELSE first[index]

\* expand_tree: the prompt is answered yes, up to the call of the helper
ExpandTreeAnalyze ==
    /\ pc = "expand"
    /\ estack = << >>
    /\ \E index \in todo :
          /\ todo' = todo \ {index}
          /\ tree' = Remove(tree, index)
          /\ estack' = << Helper("func", expand_tree_arg(index), index,
                                 Remove(tree, index), {}) >>
    /\ UNCHANGED << wasm, buf, collapsed, pc, pp, rd, node, nodes, func_types, func_count,
                    func_index, self_blocks, self_nodes, wstack, pass, first,
                    declined, alloc, panic >>

\* expand_func_tree_helper, one iteration of the loop over the blocks, up to
\* the recursive call
FuncLiftBlock ==
    /\ Expanding("func", "blocks")
    /\ \E start \in etop.pblocks :
          LET index == etop.blocks[start]
              block == self_blocks[index]
              block_id == unique_block_id(self_nodes)
              func == add_call(etop.node, start, block_id)
              path_nodes == etop.path_nodes \cup {etop.node_id}
              fr == [etop EXCEPT !.node = func, !.path_nodes = path_nodes,
                                 !.pblocks = @ \ {start},
                                 !.cur = [key |-> block_id, lifted |-> TRUE, raw |-> block]]
          IN /\ estack' = Append([estack EXCEPT ![Len(estack)] = fr],
                                 Helper("block", block, block_id, etop.tree, path_nodes))
             /\ alloc' = Append(alloc, block_id)
    /\ UNCHANGED << self_nodes, tree, todo, pc, panic >>
    /\ UNCHANGED ExpandFrame

\* expand_block_tree_helper, one iteration of the loop over the inner blocks,
\* up to the recursive call, which is given the registry index as node_id
BlockLiftBlock ==
    /\ Expanding("block", "blocks")
    /\ \E start \in etop.pblocks :
          LET index == etop.blocks[start]
              inner_block == self_blocks[index]
              block_id == unique_block_id(self_nodes)
              block == add_call(remove_instrs(etop.node, start, inner_block.end),
                                start, block_id)
              fr == [etop EXCEPT !.node = block, !.pblocks = @ \ {start},
                                 !.cur = [key |-> block_id, lifted |-> TRUE,
                                          raw |-> inner_block]]
          IN IF remove_instrs_panics(etop.node, start)
             THEN /\ pc' = "panic" /\ panic' = "remove_instrs"
                  /\ UNCHANGED << estack, alloc >>
             ELSE /\ estack' = Append([estack EXCEPT ![Len(estack)] = fr],
                                      Helper("block", inner_block, index, etop.tree,
                                             etop.path_nodes))
                  /\ alloc' = Append(alloc, block_id)
                  /\ UNCHANGED << pc, panic >>
    /\ UNCHANGED << self_nodes, tree, todo >>
    /\ UNCHANGED ExpandFrame

\* an iteration of a loop over the calls that ends in `continue`
SkipCall(call) ==
    /\ estack' = [estack EXCEPT ![Len(estack)] = [@ EXCEPT !.pcalls = @ \ {call}]]
    /\ UNCHANGED << self_nodes, tree, todo, pc, panic, alloc >>
    /\ UNCHANGED ExpandFrame

\* an iteration of a loop over the calls that reaches the recursive call:
\* tree[&index] panics when the tree has no such key
RegisterCall(call) ==
    LET index == etop.calls[call]
        path_nodes == etop.path_nodes \cup {etop.node_id}
        fr == [etop EXCEPT !.path_nodes = path_nodes, !.pcalls = @ \ {call},
                           !.cur = [key |-> index, lifted |-> FALSE, raw |-> Node_default]]
    IN /\ IF ~Has(etop.tree, index)
          THEN /\ pc' = "panic" /\ panic' = "tree"
               /\ estack' = [estack EXCEPT ![Len(estack)] = fr]
          ELSE /\ estack' = Append([estack EXCEPT ![Len(estack)] = fr],
                                   Helper("func", etop.tree[index], index, etop.tree,
                                          path_nodes))
               /\ UNCHANGED << pc, panic >>
       /\ UNCHANGED << self_nodes, tree, todo, alloc >>
       /\ UNCHANGED ExpandFrame

func_skips_self(fr, index) == index = fr.node_id

skips_loop(fr, index) == index \in fr.path_nodes

skips_registered(fr, index) == has_child(fr.node, index)

FuncSkipSelf ==
    /\ Expanding("func", "calls")
    /\ \E call \in etop.pcalls :
          /\ func_skips_self(etop, etop.calls[call])
          /\ SkipCall(call)

FuncSkipLoop ==
    /\ Expanding("func", "calls")
    /\ \E call \in etop.pcalls :
          /\ ~func_skips_self(etop, etop.calls[call])
          /\ skips_loop(etop, etop.calls[call])
          /\ SkipCall(call)

FuncSkipRegistered ==
    /\ Expanding("func", "calls")
    /\ \E call \in etop.pcalls :
          /\ ~func_skips_self(etop, etop.calls[call])
          /\ ~skips_loop(etop, etop.calls[call])
          /\ skips_registered(etop, etop.calls[call])
          /\ SkipCall(call)

FuncRegisterCall ==
    /\ Expanding("func", "calls")
    /\ \E call \in etop.pcalls :
          /\ ~func_skips_self(etop, etop.calls[call])
          /\ ~skips_loop(etop, etop.calls[call])
          /\ ~skips_registered(etop, etop.calls[call])
          /\ RegisterCall(call)

BlockSkipLoop ==
    /\ Expanding("block", "calls")
    /\ \E call \in etop.pcalls :
          /\ skips_loop(etop, etop.calls[call])
          /\ SkipCall(call)

BlockSkipRegistered ==
    /\ Expanding("block", "calls")
    /\ \E call \in etop.pcalls :
          /\ ~skips_loop(etop, etop.calls[call])
          /\ skips_registered(etop, etop.calls[call])
          /\ SkipCall(call)

BlockRegisterCall ==
    /\ Expanding("block", "calls")
    /\ \E call \in etop.pcalls :
          /\ ~skips_loop(etop, etop.calls[call])
          /\ ~skips_registered(etop, etop.calls[call])
          /\ RegisterCall(call)

Returning ==
    /\ pc = "expand"
    /\ estack # << >>
    /\ etop.phase = "calls"
    /\ etop.pcalls = {}

\* a helper returns to the iteration that called it, which runs to its end:
\* add_child, and for a lifted block self.nodes.insert(block_id, block)
HelperReturn ==
    /\ Returning
    /\ Len(estack) > 1
    /\ LET caller == estack[Len(estack) - 1]
           n == add_child(caller.node, caller.cur.key, etop.node)
           fr == [caller EXCEPT !.node = n,
                                !.att = IF caller.cur.lifted THEN @
                                        ELSE Append(@, caller.cur.key)]
       IN /\ estack' = Append(SubSeq(estack, 1, Len(estack) - 2), enter_calls(fr))
          /\ self_nodes' = IF caller.cur.lifted
                           THEN Put(self_nodes, caller.cur.key, caller.cur.raw)
                           ELSE self_nodes
    /\ UNCHANGED << tree, todo, pc, panic, alloc >>
    /\ UNCHANGED ExpandFrame

\* the helper returns to expand_tree: tree.insert(index, node); after the
\* last function expand_tree returns the tree
ExpandTreeInsert ==
    /\ Returning
    /\ Len(estack) = 1
    /\ estack' = << >>
    /\ tree' = Put(tree, etop.node_id, etop.node)
    /\ pc' = IF todo = {} THEN "done" ELSE "expand"
    /\ first' = IF todo = {} /\ pass = 1 THEN tree' ELSE first
    /\ UNCHANGED << wasm, buf, collapsed, pp, rd, node, nodes, func_types, func_count,
                    func_index, self_blocks, self_nodes, wstack, todo, pass,
                    declined, alloc, panic >>

\* expand_tree applied to the map it returned
ExpandAgain ==
    /\ pc = "done"
    /\ pass = 1
    /\ pass' = 2
    /\ todo' = DOMAIN first
    /\ tree' = first
    /\ pc' = IF DOMAIN first = {} THEN "done" ELSE "expand"
    /\ UNCHANGED << wasm, buf, collapsed, pp, rd, node, nodes, func_types, func_count,
                    func_index, self_blocks, self_nodes, wstack, estack, first,
                    declined, alloc, panic >>

-----------------------------------------------------------------------------
(* Node::collapse: the collapser.  For each (call_site, callee_id) of       *)
(* `calls` with a present child, in the arbitrary order of a HashMap: the   *)
(* child is collapsed, its bytes are spliced in at the call site, the call  *)
(* edge and the child entry are removed.  A call site is an offset in the   *)
(* bytes the node had when collapse was entered; the child entries go once  *)
(* every call entry has been visited, two call sites of one callee being    *)
(* both spliced.                                                            *)

\* prefix [0..at) + child bytes + suffix starting at `at`
Splice(instrs, at, bytes) ==
    SubSeq(instrs, 1, at) \o bytes \o SubSeq(instrs, at + 1, Len(instrs))

\* the bytes spliced in at the call sites of `sites`
RECURSIVE Moved(_, _)
Moved(spliced, sites) ==
    IF sites = {} THEN 0
    ELSE LET s == SetMin(sites) IN spliced[s] + Moved(spliced, sites \ {s})

\* a call site taken as an offset in the bytes as they are now
UnshiftedOffset(call_site, spliced) == call_site

\* where the call site is now: the bytes spliced in before it have moved it
SpliceOffset(call_site, spliced) ==
    call_site + Moved(spliced, { s \in DOMAIN spliced : s < call_site })

\* the results of the loop over the call entries of n of which `left` are
\* not yet visited, cur being the node so far
RECURSIVE Collapses(_), CollapseCalls(_, _, _, _)
CollapseCalls(n, cur, left, spliced) ==
    IF left = {}
    THEN { [cur EXCEPT !.children =
               [k \in DOMAIN cur.children \ { n.calls[c] : c \in DOMAIN spliced } |->
                   cur.children[k]]] }
    ELSE UNION {
           IF has_child(n, n.calls[c])
           THEN UNION { CollapseCalls(n,
                            [cur EXCEPT !.instrs = Splice(@, SpliceOffset(c, spliced),
                                                          child.instrs),
                                        !.calls = Remove(@, c)],
                            left \ {c}, Put(spliced, c, Len(child.instrs))) :
                        child \in Collapses(n.children[n.calls[c]]) }
           ELSE CollapseCalls(n, cur, left \ {c}, spliced) :
           c \in left }

Collapses(n) == CollapseCalls(n, n, DOMAIN n.calls, Empty)

\* the key of the node main collapses
Root == 5

\* main, after mapper.map(buf): nodes[&5] panics when the map has no such
\* key
MainCollapse ==
    /\ pc = "done"
    /\ pass = 1
    /\ IF Has(tree, Root)
       THEN /\ collapsed' \in Collapses(tree[Root])
            /\ pc' = "exit"
            /\ UNCHANGED panic
       ELSE /\ pc' = "panic"
            /\ panic' = "nodes"
            /\ UNCHANGED collapsed
    /\ UNCHANGED << wasm, buf, pp, rd, node, nodes, func_types, func_count,
                    func_index, self_blocks, self_nodes, wstack, tree, todo,
                    estack, pass, first, declined, alloc >>

-----------------------------------------------------------------------------
(* The mapper of src/src/flow_mapper.rs: its Node has instrs, branches,     *)
(* calls, start, end and children only, its walker does not enter blocks,   *)
(* and its expander has one helper.  The frames of expand_tree_helper are   *)
(* kept in estack.                                                          *)

\* Node::add_child of flow_mapper.rs: the child goes under the number of
\* children
flow_add_child(n, child) == [n EXCEPT !.children = Put(@, Size(@), child)]

\* map_helper of flow_mapper.rs on the body b: a fresh node; the loop breaks
\* at the first End or Return, whose ordinal becomes `end`
flow_map_helper(b, func_start, func_end) ==
    LET stop == SetMin({ j \in 1..Len(b) : b[j].op \in {"End", "Return"} })
        before(names) == { j \in 1..(stop - 1) : b[j].op \in names }
    IN [ instrs |-> << >>,
         branches |-> [j \in before({"Br", "BrIf"}) |-> b[j].a],
         calls |-> [j \in before({"Call", "CallIndirect"}) |-> b[j].a],
         start |-> func_start, end |-> stop, children |-> Empty ]

\* the `_` arm of Mapper::map of flow_mapper.rs
FlowParseOther ==
    /\ pc = "parse"
    /\ pp < Len(ParserStates(wasm))
    /\ ParserStates(wasm)[pp + 1].st
          \in {"BeginWasm", "ImportSectionEntry", "FunctionSectionEntry"}
    /\ pp' = pp + 1
    /\ UNCHANGED << wasm, buf, collapsed, pc, rd, node, nodes, func_types, func_count,
                    func_index, self_blocks, self_nodes, wstack, tree, todo,
                    estack, pass, first, declined, alloc, panic >>

\* the BeginFunctionBody arm and the code after the match
FlowBeginFunctionBody ==
    /\ Parsing("BeginFunctionBody")
    /\ LET k == ParserStates(wasm)[pp + 1].a
           func_start == RangeStart(wasm, k)
           func_end == RangeEnd(wasm, k)
           n == flow_map_helper(wasm.funcs[k].body, func_start, func_end)
       IN /\ func_index' = k - 1
          /\ nodes' = Put(nodes, k - 1, [n EXCEPT !.instrs = Slice(buf, func_start, func_end)])
    /\ pp' = pp + 1
    /\ UNCHANGED << wasm, buf, collapsed, pc, rd, node, func_types, func_count,
                    self_blocks, self_nodes, wstack, tree, todo, estack, pass,
                    first, declined, alloc, panic >>

\* the loop breaks and map calls expand_tree(nodes)
FlowEndWasm ==
    /\ Parsing("EndWasm")
    /\ pp' = pp + 1
    /\ tree' = nodes
    /\ todo' = DOMAIN nodes
    /\ pc' = IF DOMAIN nodes = {} THEN "done" ELSE "expand"
    /\ UNCHANGED << wasm, buf, collapsed, rd, node, nodes, func_types, func_count,
                    func_index, self_blocks, self_nodes, wstack, estack, pass,
                    first, declined, alloc, panic >>

\* the entry of expand_tree_helper; att has the callees the invocation has
\* attached, in order
FlowHelper(func, index, nodes_arg, path_nodes) ==
    [ node |-> func, func_index |-> index, tree |-> nodes_arg,
      path_nodes |-> path_nodes, calls |-> func.calls, pcalls |-> DOMAIN func.calls,
      cur |-> 0, att |-> << >> ]

FlowExpanding == pc = "expand" /\ estack # << >>

\* expand_tree of flow_mapper.rs, one iteration up to the call of the helper
FlowAnalyze ==
    /\ pc = "expand"
    /\ estack = << >>
    /\ \E index \in todo :
          /\ todo' = todo \ {index}
          /\ tree' = Remove(tree, index)
          /\ estack' = << FlowHelper(nodes[index], index, Remove(tree, index), {}) >>
    /\ UNCHANGED << pc, panic >>
    /\ UNCHANGED << self_nodes, alloc >>
    /\ UNCHANGED ExpandFrame

\* the three tests that end an iteration of the helper's loop in `continue`
flow_skips(fr, index) ==
    \/ index = fr.func_index
    \/ index \in fr.path_nodes
    \/ has_child(fr.node, index)

FlowSkipCall ==
    /\ FlowExpanding
    /\ \E call \in etop.pcalls :
          /\ flow_skips(etop, etop.calls[call])
          /\ estack' = [estack EXCEPT ![Len(estack)] = [@ EXCEPT !.pcalls = @ \ {call}]]
    /\ UNCHANGED << self_nodes, tree, todo, pc, panic, alloc >>
    /\ UNCHANGED ExpandFrame

\* an iteration that reaches the recursive call; tree[&index] panics when
\* the tree has no such key
FlowRegisterCall ==
    /\ FlowExpanding
    /\ \E call \in etop.pcalls :
          LET index == etop.calls[call]
              path_nodes == etop.path_nodes \cup {etop.func_index}
              fr == [etop EXCEPT !.path_nodes = path_nodes, !.pcalls = @ \ {call},
                                 !.cur = index]
          IN /\ ~flow_skips(etop, index)
             /\ IF ~Has(etop.tree, index)
                THEN /\ pc' = "panic" /\ panic' = "tree"
                     /\ estack' = [estack EXCEPT ![Len(estack)] = fr]
                ELSE /\ estack' = Append([estack EXCEPT ![Len(estack)] = fr],
                                         FlowHelper(etop.tree[index], index, etop.tree,
                                                    path_nodes))
                     /\ UNCHANGED << pc, panic >>
    /\ UNCHANGED << self_nodes, tree, todo, alloc >>
    /\ UNCHANGED ExpandFrame

\* the helper returns to the iteration that called it: add_child, then the
\* caller's node is put in the tree under the callee's index
FlowHelperReturn ==
    /\ FlowExpanding
    /\ etop.pcalls = {}
    /\ Len(estack) > 1
    /\ LET caller == estack[Len(estack) - 1]
           func == flow_add_child(caller.node, etop.node)
           fr == [caller EXCEPT !.node = func,
                                !.tree = Put(Remove(@, caller.cur), caller.cur, func),
                                !.att = Append(@, caller.cur)]
       IN estack' = Append(SubSeq(estack, 1, Len(estack) - 2), fr)
    /\ UNCHANGED << self_nodes, tree, todo, pc, panic, alloc >>
    /\ UNCHANGED ExpandFrame

\* the helper returns to expand_tree: tree.insert(index, node)
FlowTreeInsert ==
    /\ FlowExpanding
    /\ etop.pcalls = {}
    /\ Len(estack) = 1
    /\ estack' = << >>
    /\ tree' = Put(tree, etop.func_index, etop.node)
    /\ pc' = IF todo = {} THEN "done" ELSE "expand"
    /\ UNCHANGED << self_nodes, todo, panic, alloc >>
    /\ UNCHANGED ExpandFrame

-----------------------------------------------------------------------------
(* main: the module is read, then mapped.                                  *)

NoModule == [types |-> << >>, globals |-> << >>, imports |-> << >>, funcs |-> << >>]

Init ==
    /\ wasm = NoModule
    /\ buf = << >>
    /\ pc = "read"
    /\ pp = 0
    /\ rd = 0
    /\ node = Node_default
    /\ nodes = Empty
    /\ func_types = << >>
    /\ func_count = 0
    /\ func_index = 0
    /\ self_blocks = Empty
    /\ self_nodes = Empty
    /\ wstack = << >>
    /\ tree = Empty
    /\ todo = {}
    /\ estack = << >>
    /\ pass = 0
    /\ first = Empty
    /\ declined = {}
    /\ alloc = << >>
    /\ collapsed = Node_default
    /\ panic = ""

\* mapper.read_wasm(file), and the entry of mapper.map(buf)
read_wasm(modules) ==
    /\ pc = "read"
    /\ wasm' \in modules
    /\ buf' = Encode(wasm')
    /\ pc' = "parse"
    /\ UNCHANGED << pp, rd, node, nodes, func_types, func_count, func_index,
                    self_blocks, self_nodes, wstack, tree, todo, estack, pass,
                    first, declined, alloc, collapsed, panic >>

Signatures ==
    << [params |-> << >>, returns |-> << >>],
       [params |-> << "I32" >>, returns |-> << "I32" >>] >>

-----------------------------------------------------------------------------
(* The walker on bodies of control and variable-registering operators.     *)

WalkAlphabet ==
    { Op("Block", 0, "EmptyBlockType"), Op("If", 0, "EmptyBlockType"),
      Op("Else", 0, "none"), Op("End", 0, "none"), Op("Return", 0, "none"),
      Op("Load", 0, "I32"), Op("Store", 0, "I32"), Op("Const", 0, "I32"),
      Op("GetGlobal", 0, "none"), Op("Drop", 0, "none") }

\* the bodies that validate in a function of type t
WalkBodies ==
    [t \in {0, 1} |->
        Bodies(WalkAlphabet, MaxWalkOps,
               [sigs |-> << >>, params |-> Len(Signatures[t + 1].params),
                returns |-> Len(Signatures[t + 1].returns), globals |-> 1])]

WalkModules ==
    Modules(Signatures, << "I32" >>, Shapes({ << >> }, {0, 1}, MaxFuncs),
            WalkBodies, MaxWalkOps)

ReadWalk == read_wasm(WalkModules)

NextWalk ==
    \/ ReadWalk
    \/ ParseOther
    \/ ParseFunctionSectionEntry
    \/ ParseBeginFunctionBody
    \/ WalkBlock
    \/ WalkIf
    \/ WalkElse
    \/ WalkElseIgnored
    \/ WalkEnd
    \/ WalkLoad
    \/ WalkStore
    \/ WalkConst
    \/ WalkGetGlobal
    \/ WalkIgnored

SpecWalk == Init /\ [][NextWalk]_vars

-----------------------------------------------------------------------------
(* The whole pipeline on bodies of blocks and calls.                       *)

Alphabet ==
    { Op("Block", 0, "EmptyBlockType"), Op("End", 0, "none"),
      Op("Call", 0, "none"), Op("Call", 1, "none") }

\* the bodies that validate where functions 0 and 1 exist
AllBodies ==
    [t \in {0} |->
        Bodies(Alphabet, MaxOps,
               [sigs |-> << Signatures[1], Signatures[1] >>, params |-> 0, returns |-> 0,
                globals |-> 0])]

\* with or without one imported function, which takes index 0 of the
\* function index space
AllModules ==
    Modules(Signatures, << >>, Shapes({ << >>, << 0 >> }, {0}, MaxFuncs),
            AllBodies, MaxOps)

ReadWasm == read_wasm(AllModules)

Next ==
    \/ ReadWasm
    \/ ParseOther
    \/ ParseFunctionSectionEntry
    \/ ParseBeginFunctionBody
    \/ ParseEndWasm
    \/ WalkBlock
    \/ WalkCall
    \/ WalkEnd
    \/ ExpandTreeSkip
    \/ ExpandTreeAnalyze
    \/ FuncLiftBlock
    \/ BlockLiftBlock
    \/ FuncSkipSelf
    \/ FuncSkipLoop
    \/ FuncSkipRegistered
    \/ FuncRegisterCall
    \/ BlockSkipLoop
    \/ BlockSkipRegistered
    \/ BlockRegisterCall
    \/ HelperReturn
    \/ ExpandTreeInsert
    \/ ExpandAgain

Spec == Init /\ [][Next]_vars

-----------------------------------------------------------------------------
(* The expander on call chains through nested blocks: a leaf function 0, a *)
(* function 1 of blocks and calls of function 2, and a function 2 of calls *)
(* of function 0.  Every prompt of expand_tree is answered yes.            *)

ChainContext ==
    [sigs |-> << Signatures[1], Signatures[1], Signatures[1] >>, params |-> 0,
     returns |-> 0, globals |-> 0]

CallerBodies ==
    Bodies({ Op("Block", 0, "EmptyBlockType"), Op("End", 0, "none"), Op("Call", 2, "none") },
           MaxCallerOps, ChainContext)

CalleeBodies ==
    Bodies({ Op("End", 0, "none"), Op("Call", 0, "none") }, MaxCalleeOps, ChainContext)

ChainModules ==
    { w \in { [types |-> Signatures, globals |-> << >>, imports |-> << >>,
               funcs |-> << [ty |-> 0, body |-> << Op("End", 0, "none") >>],
                            [ty |-> 0, body |-> b], [ty |-> 0, body |-> c] >>] :
                 b \in CallerBodies, c \in CalleeBodies } :
        ValidModule(w) }

ReadChain == read_wasm(ChainModules)

NextChain ==
    \/ ReadChain
    \/ ParseOther
    \/ ParseFunctionSectionEntry
    \/ ParseBeginFunctionBody
    \/ ParseEndWasm
    \/ WalkBlock
    \/ WalkCall
    \/ WalkEnd
    \/ ExpandTreeAnalyze
    \/ FuncLiftBlock
    \/ BlockLiftBlock
    \/ FuncSkipSelf
    \/ FuncSkipLoop
    \/ FuncSkipRegistered
    \/ FuncRegisterCall
    \/ BlockSkipLoop
    \/ BlockSkipRegistered
    \/ BlockRegisterCall
    \/ HelperReturn
    \/ ExpandTreeInsert

SpecChain == Init /\ [][NextChain]_vars

-----------------------------------------------------------------------------
(* The walker on bodies that need not validate: an operator may find too    *)
(* few operands, and the bytes may end before the function's final End.     *)

AnyAlphabet ==
    { Op("Block", 0, "EmptyBlockType"), Op("End", 0, "none"),
      Op("Const", 0, "I32"), Op("Drop", 0, "none") }

RECURSIVE Sequences(_, _)
Sequences(alphabet, n) ==
    IF n = 0 THEN { << >> }
    ELSE { << >> } \cup { << o >> \o r : o \in alphabet, r \in Sequences(alphabet, n - 1) }

AnyContext == [sigs |-> << >>, params |-> 0, returns |-> 0, globals |-> 0]

\* the bodies of which no operator follows the End that closes the function
AnyBodies ==
    { b \in Sequences(AnyAlphabet, MaxAnyOps) :
        /\ b # << >>
        /\ \A k \in 1..(Len(b) - 1) : validator(b, AnyContext, k) # << >> }

AnyModules ==
    { [types |-> Signatures, globals |-> << >>, imports |-> << >>,
       funcs |-> << [ty |-> 0, body |-> b] >>] : b \in AnyBodies }

ReadAny == read_wasm(AnyModules)

NextDecode ==
    \/ ReadAny
    \/ ParseOther
    \/ ParseFunctionSectionEntry
    \/ ParseBeginFunctionBody
    \/ WalkBlock
    \/ WalkConst
    \/ WalkIgnored
    \/ WalkEnd
    \/ WalkBadWasm

SpecDecode == Init /\ [][NextDecode]_vars

-----------------------------------------------------------------------------
(* The walker on bodies that read parameters and globals, in functions of   *)
(* type (i32) -> (i32).                                                     *)

LocalAlphabet ==
    { Op("GetLocal", 0, "none"), Op("GetGlobal", 0, "none"), Op("Drop", 0, "none"),
      Op("End", 0, "none") }

LocalBodies ==
    [t \in {1} |->
        Bodies(LocalAlphabet, MaxLocalOps,
               [sigs |-> << >>, params |-> Len(Signatures[t + 1].params),
                returns |-> Len(Signatures[t + 1].returns), globals |-> 1])]

LocalModules ==
    Modules(Signatures, << "I32" >>, Shapes({ << >> }, {1}, MaxFuncs),
            LocalBodies, MaxLocalOps)

ReadLocal == read_wasm(LocalModules)

NextLocal ==
    \/ ReadLocal
    \/ ParseOther
    \/ ParseFunctionSectionEntry
    \/ ParseBeginFunctionBody
    \/ WalkGetLocal
    \/ WalkGetGlobal
    \/ WalkIgnored
    \/ WalkEnd

SpecLocal == Init /\ [][NextLocal]_vars

-----------------------------------------------------------------------------
(* main on modules of six functions, the last of which it collapses: leaf   *)
(* functions 0, 2, 3 and 4, a function 1 that may call function 0, and a    *)
(* function 5 of calls of functions 0 and 1.  Every prompt of expand_tree   *)
(* is answered yes.                                                         *)

SixContext ==
    [sigs |-> [k \in 1..6 |-> Signatures[1]], params |-> 0, returns |-> 0, globals |-> 0]

RootBodies ==
    Bodies({ Op("End", 0, "none"), Op("Call", 0, "none"), Op("Call", 1, "none") },
           MaxRootOps, SixContext)

MidBodies == Bodies({ Op("End", 0, "none"), Op("Call", 0, "none") }, MaxMidOps, SixContext)

SixModules ==
    { w \in { [types |-> Signatures, globals |-> << >>, imports |-> << >>,
               funcs |-> [k \in 1..6 |->
                            [ty |-> 0,
                             body |-> CASE k = 2 -> m
                                        [] k = 6 -> r
                                        [] OTHER -> << Op("End", 0, "none") >>]]] :
                 m \in MidBodies, r \in RootBodies } :
        ValidModule(w) }

ReadSix == read_wasm(SixModules)

NextCollapse ==
    \/ ReadSix
    \/ ParseOther
    \/ ParseFunctionSectionEntry
    \/ ParseBeginFunctionBody
    \/ ParseEndWasm
    \/ WalkCall
    \/ WalkEnd
    \/ ExpandTreeAnalyze
    \/ FuncSkipRegistered
    \/ FuncRegisterCall
    \/ HelperReturn
    \/ ExpandTreeInsert
    \/ MainCollapse

SpecCollapse == Init /\ [][NextCollapse]_vars

-----------------------------------------------------------------------------
(* The walker on if and else clauses whose bodies register input variables *)
(* or leave the function.                                                   *)

\* one function of type () -> (), where one global exists
ElseModules ==
    Modules(Signatures, << "I32" >>, Shapes({ << >> }, {0}, 1),
            [t \in {0} |->
                Bodies({ Op("If", 0, "EmptyBlockType"), Op("Else", 0, "none"),
                         Op("End", 0, "none"), Op("Return", 0, "none"),
                         Op("Const", 0, "I32"), Op("GetGlobal", 0, "none"),
                         Op("Drop", 0, "none") },
                       MaxElseOps,
                       [sigs |-> << >>, params |-> 0, returns |-> 0, globals |-> 1])],
            MaxElseOps)

ReadElse == read_wasm(ElseModules)

NextElse ==
    \/ ReadElse
    \/ ParseOther
    \/ ParseFunctionSectionEntry
    \/ ParseBeginFunctionBody
    \/ WalkIf
    \/ WalkElse
    \/ WalkElseIgnored
    \/ WalkEnd
    \/ WalkConst
    \/ WalkGetGlobal
    \/ WalkIgnored

SpecElse == Init /\ [][NextElse]_vars

-----------------------------------------------------------------------------
(* The walker on straight-line bodies of constants, loads and              *)
(* multiplications of every type.  The operands of these bodies are not all *)
(* i32: the validator checks their types too.                               *)

\* the operators of b from the k-th on find operands of their types on the
\* operand stack, `stack` being the types of the operands before the k-th
RECURSIVE OperandTypes(_, _, _)
OperandTypes(b, k, stack) ==
    IF k > Len(b) THEN TRUE
    ELSE LET o == b[k]
             h == Len(stack)
         IN CASE o.op = "Const" -> OperandTypes(b, k + 1, Append(stack, o.ty))
              [] o.op \in Loads \cup {"V128Load"} ->
                    /\ h >= 1
                    /\ stack[h] = "I32"
                    /\ OperandTypes(b, k + 1,
                          [stack EXCEPT ![h] = IF o.op = "V128Load" THEN "V128" ELSE o.ty])
              [] o.op = "Mul" ->
                    /\ h >= 2
                    /\ stack[h] = o.ty
                    /\ stack[h - 1] = o.ty
                    /\ OperandTypes(b, k + 1, SubSeq(stack, 1, h - 1))
              [] o.op = "Drop" -> h >= 1 /\ OperandTypes(b, k + 1, SubSeq(stack, 1, h - 1))
              [] OTHER -> OperandTypes(b, k + 1, stack)

\* one function of type () -> (): a load, a load at the address another load
\* has read, or a multiplication of two constants; the result is dropped
DataModules ==
    LET Ints == {"I32", "I64"}
        Num == {"I32", "I64", "F32", "F64"}
        loads ==
            { Op("Load", a, "I32") : a \in {0, 1} }
            \cup { Op("Load", 0, ty) : ty \in Num }
            \cup { Op(l, 0, ty) :
                      l \in {"Load8S", "Load8U", "Load16S", "Load16U", "AtomicLoad",
                             "AtomicLoad8U", "AtomicLoad16U"}, ty \in Ints }
            \cup { Op(l, 0, "I64") : l \in {"Load32S", "Load32U", "AtomicLoad32U"} }
            \cup { Op("V128Load", 0, "none") }
        const(ty) == Op("Const", 0, ty)
        drop == Op("Drop", 0, "none")
        end == Op("End", 0, "none")
        bodies ==
            { << const("I32"), l, drop, end >> : l \in loads }
            \cup { << const("I32"), l, m, drop, end >> : l \in loads, m \in loads }
            \cup { << const(ty), const(ty), Op("Mul", 0, ty), drop, end >> : ty \in Num }
    IN Modules(Signatures, << >>, Shapes({ << >> }, {0}, 1),
               [t \in {0} |-> { b \in bodies : Len(b) <= MaxDataOps /\ OperandTypes(b, 1, << >>) }],
               MaxDataOps)

ReadData == read_wasm(DataModules)

NextData ==
    \/ ReadData
    \/ ParseOther
    \/ ParseFunctionSectionEntry
    \/ ParseBeginFunctionBody
    \/ WalkConst
    \/ WalkLoad
    \/ WalkV128Load
    \/ WalkMul
    \/ WalkMulTodo
    \/ WalkIgnored
    \/ WalkEnd

SpecData == Init /\ [][NextData]_vars

-----------------------------------------------------------------------------
(* The driver on modules of which a function may have a type index that the *)
(* type table (of two types) does not hold.                                 *)

ErrModules ==
    { [types |-> Signatures, globals |-> << >>, imports |-> << >>, funcs |-> f] :
        f \in { g \in Sequences({ [ty |-> t, body |-> b] :
                                    t \in {0, 2},
                                    b \in { << Op("End", 0, "none") >>,
                                            << Op("Const", 0, "I32"), Op("Drop", 0, "none"),
                                               Op("End", 0, "none") >> } },
                                MaxFuncs) : g # << >> } }

ReadErr == read_wasm(ErrModules)

NextErr ==
    \/ ReadErr
    \/ ParseOther
    \/ ParseFunctionSectionEntry
    \/ ParseError
    \/ ParseBeginFunctionBody
    \/ WalkConst
    \/ WalkIgnored
    \/ WalkEnd

SpecErr == Init /\ [][NextErr]_vars

-----------------------------------------------------------------------------
(* The mapper of flow_mapper.rs on modules of up to three functions of      *)
(* calls.                                                                   *)

FlowModules ==
    Modules(Signatures, << >>, Shapes({ << >> }, {0}, MaxFlowFuncs),
            [t \in {0} |->
                Bodies({ Op("End", 0, "none") } \cup { Op("Call", c, "none") : c \in 0..2 },
                       MaxFlowOps,
                       [sigs |-> [k \in 1..3 |-> Signatures[1]], params |-> 0,
                        returns |-> 0, globals |-> 0])],
            MaxFlowOps)

ReadFlow == read_wasm(FlowModules)

NextFlow ==
    \/ ReadFlow
    \/ FlowParseOther
    \/ FlowBeginFunctionBody
    \/ FlowEndWasm
    \/ FlowAnalyze
    \/ FlowSkipCall
    \/ FlowRegisterCall
    \/ FlowHelperReturn
    \/ FlowTreeInsert

SpecFlow == Init /\ [][NextFlow]_vars

-----------------------------------------------------------------------------
(* The expander on a leaf function 0 and a function 1 that calls it from    *)
(* nested blocks.  Every prompt of expand_tree is answered yes.             *)

NestModules ==
    { w \in { [types |-> Signatures, globals |-> << >>, imports |-> << >>,
               funcs |-> << [ty |-> 0, body |-> << Op("End", 0, "none") >>],
                            [ty |-> 0, body |-> b] >>] :
                 b \in Bodies({ Op("Block", 0, "EmptyBlockType"), Op("End", 0, "none"),
                                Op("Call", 0, "none") },
                              MaxNestOps, ChainContext) } :
        ValidModule(w) }

ReadNest == read_wasm(NestModules)

NextNest ==
    \/ ReadNest
    \/ ParseOther
    \/ ParseFunctionSectionEntry
    \/ ParseBeginFunctionBody
    \/ ParseEndWasm
    \/ WalkBlock
    \/ WalkCall
    \/ WalkEnd
    \/ ExpandTreeAnalyze
    \/ FuncLiftBlock
    \/ BlockLiftBlock
    \/ FuncSkipSelf
    \/ FuncSkipRegistered
    \/ FuncRegisterCall
    \/ BlockSkipRegistered
    \/ BlockRegisterCall
    \/ HelperReturn
    \/ ExpandTreeInsert

SpecNest == Init /\ [][NextNest]_vars

-----------------------------------------------------------------------------
(* The properties checked.                                                 *)

\* Mapper::map has returned, and every prompt of expand_tree was answered yes
Expanded == pc = "done" /\ pass = 1 /\ declined = {}

\* the ids of the functions of the module
FunctionIds == DOMAIN nodes

\* no chain through `children` below n meets a function id of `seen`, nor
\* any function id twice
RECURSIVE Feedforward(_, _)
Feedforward(n, seen) ==
    \A k \in DOMAIN n.children :
        /\ k \in FunctionIds => k \notin seen
        /\ Feedforward(n.children[k], seen \cup {k})

\* C1: after Mapper::map has expanded every function, no chain root -> child
\* -> grandchild -> ... through `children` of a node of the returned map
\* contains the same function id twice.
ExpansionIsAcyclic ==
    Expanded => \A r \in DOMAIN tree : Feedforward(tree[r], {r})

\* every call entry of n, which sits under the key id below the keys anc, and
\* of every node below n, is a call of n itself, of an ancestor or of a child
RECURSIVE Resolved(_, _, _)
Resolved(n, id, anc) ==
    /\ \A c \in DOMAIN n.calls :
          \/ n.calls[c] = id
          \/ n.calls[c] \in anc
          \/ n.calls[c] \in DOMAIN n.children
    /\ \A k \in DOMAIN n.children : Resolved(n.children[k], k, anc \cup {id})

\* C2: after the expansion of every function, for every node N of the
\* expanded tree and every entry of N.calls, the callee id is N's id, or the
\* id of an ancestor of N on the expansion path, or a key of N.children.
CallsResolveAfterExpansion ==
    Expanded => \A r \in DOMAIN tree : Resolved(tree[r], r, {})

\* C3: expand_tree always completes and returns a map: no recursive call of
\* expand_func_tree_helper / expand_block_tree_helper ends in a panic,
\* whatever the walked nodes, call entries whose callee has no registered
\* node included.
ExpandTreeCompletes == panic \notin {"tree", "remove_instrs"}

\* C4: a second expansion pass on an already-expanded map changes nothing:
\* every function's calls, children and blocks after the second pass are
\* those after the first.
ExpansionIsIdempotent ==
    pc = "done" /\ pass = 2 /\ declined = {} =>
        \A k \in DOMAIN first :
            /\ Has(tree, k)
            /\ tree[k].calls = first[k].calls
            /\ tree[k].children = first[k].children
            /\ tree[k].blocks = first[k].blocks

\* C5: every id unique_block_id allocates for a lifted block differs from
\* every function id and from the id of every other lifted block of the run,
\* a block nested in another lifted block included.
BlockIdsAreUnique ==
    pass = 1 =>
        /\ \A a, b \in 1..Len(alloc) : a # b => alloc[a] # alloc[b]
        /\ \A a \in 1..Len(alloc) : alloc[a] \notin FunctionIds

\* the body is calls of function c, one at least, and the final End
OnlyCalls(b, c) ==
    /\ Len(b) >= 2
    /\ \A i \in 1..(Len(b) - 1) : b[i] = Op("Call", c, "none")
    /\ b[Len(b)] = Op("End", 0, "none")

\* the node of function k (counted from 1) has kept the entry of every call
\* of its body, with the callee c
KeepsCalls(k, c) ==
    \A i \in 1..(Len(wasm.funcs[k].body) - 1) :
        Has(tree[k - 1].calls, i) /\ tree[k - 1].calls[i] = c

\* C6: for a function whose only call is to itself, after expansion the
\* function's node has an empty `children` map and its `calls` still holds
\* the self-call entry, unchanged.
SelfCallIsPruned ==
    Expanded /\ wasm.imports = << >> =>
        \A k \in 1..Len(wasm.funcs) :
            OnlyCalls(wasm.funcs[k].body, k - 1) =>
                tree[k - 1].children = Empty /\ KeepsCalls(k, k - 1)

NoDuplicate(s) == \A a, b \in 1..Len(s) : a # b => s[a] # s[b]

\* C7: when a function calls the same callee from several call sites, the
\* helper attaches that callee exactly once: no frame attaches a callee
\* twice, `children` has the entry keyed by the callee id, and all the call
\* entries remain in `calls`.
RepeatedCalleeAttachedOnce ==
    /\ \A j \in 1..Len(estack) : NoDuplicate(estack[j].att)
    /\ Expanded /\ wasm.imports = << >> =>
          \A k \in 1..Len(wasm.funcs) : \A c \in FunctionIds :
              (c # k - 1 /\ Len(wasm.funcs[k].body) >= 3 /\ OnlyCalls(wasm.funcs[k].body, c))
                  => Has(tree[k - 1].children, c) /\ KeepsCalls(k, c)

\* the nodes map_helper has produced: the functions' and the registered blocks'
Walked ==
    { nodes[k] : k \in DOMAIN nodes } \cup { self_blocks[b] : b \in DOMAIN self_blocks }

\* C8: for every node produced by map_helper (function, block, if-clause,
\* else-clause), after the walk end >= start and the length of instrs is
\* end - start.
InstrsSpanStartToEnd ==
    \A n \in Walked : n.end >= n.start /\ Len(n.instrs) = n.end - n.start

\* C8 happens: a function has been walked in which an if-clause with an
\* else-clause, whose end the else-clause has set, has been registered
InstrsSpanWitness ==
    /\ pc = "parse"
    /\ DOMAIN nodes # {}
    /\ \E b \in DOMAIN self_blocks :
          /\ Size(self_blocks[b].flow_control_couplings) = 1
          /\ self_blocks[b].blocks # Empty
          /\ self_blocks[b].end > self_blocks[b].start
          /\ Len(self_blocks[b].instrs) > 0

DisjointIds(n) ==
    LET I == DOMAIN n.input_variables
        O == DOMAIN n.output_variables
        V == DOMAIN n.internal_variables
        K == DOMAIN n.constants
    IN /\ I \cap O = {} /\ I \cap V = {} /\ I \cap K = {}
       /\ O \cap V = {} /\ O \cap K = {} /\ V \cap K = {}

\* C9: in every node after the walk and signature attachment, the key sets
\* of input_variables, output_variables, internal_variables and constants are
\* pairwise disjoint: no variable id is handed out twice.
VariableIdsAreDisjoint == \A n \in Walked : DisjointIds(n)

\* C10: every if-clause node C the walker creates, with enclosing node P,
\* has exactly one input variable and exactly one flow-control coupling, and
\* the key of that coupling is a key of P.internal_variables, whatever
\* operators occur in the if body.  The frames of the walker hold C above P;
\* neither map of C nor P.internal_variables ever loses a key, so what fails
\* in a frame fails after the walk.
IfClauseHasOneCoupling ==
    \A j \in 2..Len(wstack) :
        wstack[j].kind = "if" =>
            /\ Size(wstack[j].node.input_variables) = 1
            /\ Size(wstack[j].node.flow_control_couplings) = 1
            /\ DOMAIN wstack[j].node.flow_control_couplings
                  \subseteq DOMAIN wstack[j - 1].node.internal_variables

\* C11: for every if ... else ... end region, the else-clause node's single
\* flow-control coupling maps from the same outer-scope variable id as the
\* coupling of its if-clause node.  The else-clause's frame is opened by the
\* frame of its if-clause, which is the frame below it.
ElseSharesIfCoupling ==
    \A j \in 2..Len(wstack) :
        wstack[j].kind = "else" =>
            DOMAIN wstack[j].node.flow_control_couplings
                = DOMAIN wstack[j - 1].node.flow_control_couplings

\* the number of operators of the body b that are of one of the names
Count(b, names) == Cardinality({ j \in 1..Len(b) : b[j].op \in names })

\* the body is one if ... else ... end region among operators that open no
\* other region and do not leave the function
OneIfElse(b) ==
    /\ Count(b, {"If"}) = 1
    /\ Count(b, {"Else"}) = 1
    /\ Count(b, {"Block", "Loop", "Return"}) = 0

\* C12: after the walk of a function whose body has one if ... else ... end
\* region, both the if-clause and the else-clause are registered as blocks of
\* the function's node: it has exactly two entries in `blocks` and one
\* internal variable.
IfAndElseAreBlocksOfEnclosing ==
    (Has(nodes, 0) /\ OneIfElse(wasm.funcs[1].body)) =>
        /\ Size(nodes[0].blocks) = 2
        /\ Size(nodes[0].internal_variables) = 1

\* the k-th read of the body walked was Ok
WasOk(k) == next_ok(body, ContextOf(wasm, func_index + 1), k)

\* C13: when reader.next returns a decode error during a walk, the walk stops
\* at that point: no operator is read after a read that failed, a read that
\* failed at the end of the bytes is not tried again, and no node is
\* registered for the function as if the walk had succeeded.
BadWasmStopsWalk ==
    func_count > 0 =>
        /\ \A k \in 1..(rd - 1) : WasOk(k)
        /\ \A j \in 1..Len(wstack) : wstack[j].i <= rd + 1
        /\ Has(nodes, func_index) => \A k \in 1..rd : WasOk(k)

\* C14: in a module of two or more functions, the node Mapper::map registers
\* for function k carries only state derived from function k's own body and
\* signature: each of its maps has no more entries than the body has
\* operators that add an entry to it (and the signature has parameters or
\* results), so that nothing recorded for a function walked before is in it.
NodeCarriesOwnState ==
    \A k \in DOMAIN nodes :
        LET b == wasm.funcs[k + 1].body
            sig == wasm.types[wasm.funcs[k + 1].ty + 1]
            n == nodes[k]
        IN /\ Size(n.calls) <= Count(b, {"Call", "CallIndirect"})
           /\ Size(n.blocks) <= Count(b, {"Block", "Loop", "If"})
           /\ Size(n.branches) <= Count(b, {"Br", "BrIf"})
           /\ Size(n.constants) <= Count(b, {"Const"})
           /\ Size(n.input_variables) <= Len(sig.params) + Count(b, {"Load", "GetGlobal"})
           /\ Size(n.output_variables) <= Len(sig.returns) + Count(b, {"Store", "SetGlobal"})
           /\ Size(n.internal_variables) <= Count(b, {"If"})
           /\ Size(n.flow_control_couplings) = 0
           /\ Size(n.operations) <= Count(b, {"If", "GetLocal", "Add", "Mul"})

\* C15: for a module with no function bodies (the top-level parser yields
\* EndWasm without any BeginFunctionBody), Mapper::map returns an empty node
\* map, registers nothing in the mapper's node or block registries, and
\* reports no error.
EmptyModuleMapsToNothing ==
    (pc # "read" /\ wasm.funcs = << >>) =>
        /\ pc \in {"parse", "done"}
        /\ panic = ""
        /\ nodes = Empty
        /\ self_nodes = Empty
        /\ self_blocks = Empty
        /\ pc = "done" => tree = Empty /\ first = Empty

\* C15 happens: Mapper::map has returned for a module without functions
EmptyModuleMapped ==
    /\ pc = "done"
    /\ pass = 1
    /\ wasm.funcs = << >>
    /\ pp = Len(ParserStates(wasm))

\* the regions open at the j-th operator of the body b
Depth(b, j) ==
    Cardinality({ k \in 1..(j - 1) : b[k].op \in {"Block", "Loop", "If"} })
    - Cardinality({ k \in 1..(j - 1) : b[k].op = "End" })

\* every Return of the body is inside a region
ReturnsInRegions(b) == \A j \in 1..Len(b) : b[j].op = "Return" => Depth(b, j) > 0

\* C17: each walker invocation opened by Block, Loop or If returns at the End
\* that matches its own opening operator, also when a Return occurs inside
\* the region, so that no enclosing walker takes a nested region's End as its
\* own: when the function's walker has returned, the body has been read up
\* to the function's final End.
WalkReachesFinalEnd ==
    (func_count > 0 /\ pc # "walk" /\ pc # "panic" /\ ReturnsInRegions(body))
        => rd = Len(body)

\* C18: each Call operator processed by the walker adds a `calls` entry whose
\* key is the byte position of that operator (the parser's current_position
\* at its read), and whose value is the called function index.  Stated of
\* the functions whose calls are all read by the function's own walker.
CallsKeyedByPosition ==
    \A k \in DOMAIN nodes :
        LET b == wasm.funcs[k + 1].body
        IN Count(b, {"Block", "Loop", "If"}) = 0 =>
              \A j \in 1..Len(b) :
                  b[j].op = "Call" =>
                      /\ Has(nodes[k].calls, current_position(b, j))
                      /\ nodes[k].calls[current_position(b, j)] = b[j].a

\* the nodes an If may be read in while the first function is walked: the
\* nodes of the walker's frames, the first function's and the registered
\* blocks'
Enclosing ==
    IF func_count > 1 THEN {}
    ELSE { wstack[j].node : j \in 1..Len(wstack) } \cup Walked

\* C20: after the walker has processed an If (the enclosing node has the
\* clause's block under the ordinal of its internal variable), the enclosing
\* node's operations contain Spin{outer_id} and the if-clause node stored in
\* the mapper's block registry contains Spin{inner_id} in its operations.
IfSpinsInBothNodes ==
    \A p \in Enclosing :
        \A i \in DOMAIN p.blocks \cap DOMAIN p.internal_variables :
            /\ Has(p.operations, i)
            /\ p.operations[i] = Spin(internal_variable_id(i))
            /\ \E o \in DOMAIN self_blocks[p.blocks[i]].operations :
                  self_blocks[p.blocks[i]].operations[o]
                      = Spin(input_variable_id(Node_default))

\* the id under which signature attachment registers parameter idx of the
\* first function, whose node holds the input variables that the loads and
\* GetGlobal operators of the body b have registered before
ParameterId(b, idx) == 0 + Count(b, {"Load", "GetGlobal"}) + idx

\* C19: for a function with n parameters, every GetLocal{idx} with idx < n in
\* its body appends Spin{id}, where id is the input-variable id under which
\* parameter idx is registered in that function's node by signature
\* attachment, also when loads or GetGlobal operators in the body register
\* input variables.  Stated of the first function of the module, once its
\* node is registered.
GetLocalSpinsParameter ==
    Has(nodes, 0) =>
        LET b == wasm.funcs[1].body
            n == Len(wasm.types[wasm.funcs[1].ty + 1].params)
        IN \A j \in 1..Len(b) :
              (b[j].op = "GetLocal" /\ b[j].a < n /\ Count(b, {"Block", "Loop", "If"}) = 0) =>
                  /\ Has(nodes[0].input_variables, ParameterId(b, b[j].a))
                  /\ Has(nodes[0].operations, j)
                  /\ nodes[0].operations[j] = Spin(ParameterId(b, b[j].a))

\* every call entry of n, which sits under the key id below the keys anc, and
\* of every node below n, has its child present and is no back-edge
RECURSIVE Collapsible(_, _, _)
Collapsible(n, id, anc) ==
    /\ \A c \in DOMAIN n.calls :
          has_child(n, n.calls[c]) /\ n.calls[c] \notin anc \cup {id}
    /\ \A k \in DOMAIN n.children : Collapsible(n.children[k], k, anc \cup {id})

\* the inlined byte image of n: its bytes, with the image of the callee put
\* in at every call site; InlinedFrom has the bytes from the offset `from`
\* on, the call sites `sites` being the ones at or after it
RECURSIVE Inlined(_), InlinedFrom(_, _, _)
InlinedFrom(n, sites, from) ==
    IF sites = {} THEN SubSeq(n.instrs, from + 1, Len(n.instrs))
    ELSE LET c == SetMin(sites)
         IN SubSeq(n.instrs, from + 1, c) \o Inlined(n.children[n.calls[c]])
            \o InlinedFrom(n, sites \ {c}, c)

Inlined(n) == InlinedFrom(n, DOMAIN n.calls, 0)

BadElseIsIgnored ==
    [][(/\ pc = "walk"
        /\ rd < Len(body)
        /\ body[rd + 1].op = "Else"
        /\ read_ok
        /\ (Size(top.node.flow_control_couplings) # 1 \/ Size(top.node.input_variables) # 1))
       => /\ pc' = "walk"
          /\ rd' = rd + 1
          /\ Len(wstack') = Len(wstack)
          /\ wstack'[Len(wstack)].node = top.node
          /\ wstack'[Len(wstack)].i = top.i + 1
          /\ self_blocks' = self_blocks
          /\ nodes' = nodes]_vars

\* C21 happens: the walker of an if-clause that has registered a second input
\* variable has read the Else and goes on in the same invocation
BadElseWasIgnored ==
    /\ pc = "walk"
    /\ rd >= 1
    /\ body[rd].op = "Else"
    /\ top.kind = "if"
    /\ Size(top.node.flow_control_couplings) = 1
    /\ Size(top.node.input_variables) = 2

\* n and every node below it have no entry in `blocks`
RECURSIVE NoBlocks(_)
NoBlocks(n) ==
    /\ n.blocks = Empty
    /\ \A k \in DOMAIN n.children : NoBlocks(n.children[k])

\* C22: after a node has been expanded, its `blocks` map is empty: every
\* inline block recorded by the walker has been replaced by a call entry and
\* a child, and none remains in `blocks`.
BlocksEmptiedByExpansion ==
    Expanded => \A r \in DOMAIN tree : NoBlocks(tree[r])

\* the walker reads an operator of one of the names in the next step
Reads(names) ==
    /\ pc = "walk"
    /\ rd < Len(body)
    /\ read_ok
    /\ body[rd + 1].op \in names

\* the node of the walker invocation that reads, after the step
Stepped == wstack'[Len(wstack)].node

\* C23: every load operator handled by the walker (I32/I64/F32/F64 loads and
\* their 8/16/32-bit variants, atomic loads, and V128Load) adds exactly one
\* input variable of the load's result type to the current node and sets
\* input_data_couplings[memarg.offset] to that variable's id.
LoadRegistersInput ==
    [][Reads(Loads \cup {"V128Load"}) =>
          LET o == body[rd + 1]
              ty == IF o.op = "V128Load" THEN "V128" ELSE o.ty
              new == DOMAIN Stepped.input_variables \ DOMAIN top.node.input_variables
          IN /\ Len(wstack') = Len(wstack)
             /\ Cardinality(new) = 1
             /\ \A v \in new :
                   /\ Stepped.input_variables[v] = ty
                   /\ Has(Stepped.input_data_couplings, o.a)
                   /\ Stepped.input_data_couplings[o.a] = v]_vars

\* C24: every scalar multiply operator (I32Mul, I64Mul, F32Mul, F64Mul)
\* processed by the walker appends Mul{ty} with the operator's type to the
\* current node's operations at the current walk step.
MulAppendsMul ==
    [][Reads({"Mul"}) =>
          /\ Len(wstack') = Len(wstack)
          /\ Has(Stepped.operations, top.i + 1)
          /\ Stepped.operations[top.i + 1] = MulExpr(body[rd + 1].ty)]_vars

\* the type index of function k (counted from 1) is not in the type table
Unresolved(k) == wasm.funcs[k].ty >= Len(wasm.types)

\* C25: when a function's type cannot be resolved (its type index is not in
\* the type table), signature attachment logs the problem and registers the
\* function's node with no parameter and no result variables, and the driver
\* goes on to the next function: the run does not end in a panic, and once
\* the driver is past the function its node is registered without variables
\* of a signature.
UnknownTypeIsTolerated ==
    \A k \in 1..Len(wasm.funcs) :
        Unresolved(k) =>
            /\ panic = ""
            /\ (pc = "parse" /\ func_count >= k) =>
                  /\ Has(nodes, k - 1)
                  /\ nodes[k - 1].input_variables = Empty
                  /\ nodes[k - 1].output_variables = Empty

\* the step reads ParserState::Error: the parser's state is read where a
\* function section entry is, and the entry is not recorded
ErrorStep ==
    /\ pc = "parse"
    /\ pp < Len(ParserStates(wasm))
    /\ ParserStates(wasm)[pp + 1].st = "FunctionSectionEntry"
    /\ pp' = pp + 1
    /\ func_types' = func_types

\* C27: a top-level ParserState::Error step in Mapper::map neither invokes
\* the walker nor registers or overwrites any node: the mapper's node
\* registry and the result map are the same before and after that step, and
\* the driver then reads the next parser state (the step is no function of
\* the driver's count, and the driver is at its next read).
ParserErrorIsSkipped ==
    [][ErrorStep =>
          /\ wstack' = wstack
          /\ nodes' = nodes
          /\ self_nodes' = self_nodes
          /\ func_count' = func_count
          /\ pc' = "parse"]_vars

\* C26: in flow_mapper.rs, when a function calls the same callee from
\* several call sites, expand_tree_helper attaches that callee once only:
\* the duplicate check has_child(callee id) is true exactly when that callee
\* has already been attached to the function.
FlowCalleeAttachedOnce ==
    \A j \in 1..Len(estack) :
        /\ NoDuplicate(estack[j].att)
        /\ \A c \in DOMAIN nodes :
              has_child(estack[j].node, c) <=> (\E a \in 1..Len(estack[j].att) : estack[j].att[a] = c)

\* C28: for every Block or Loop node, [start, end) is the byte range from the
\* position just after the opening operator to the position just after the
\* matching End: when the End of a block or loop is read, the node that is
\* registered has end - start equal to the difference of these two positions,
\* and the range lies within the buffer.
BlockRangeIsItsBytes ==
    [][(Reading({"End"}) /\ top.kind \in {"block", "loop"} /\ rd' = rd + 1 /\ pc' # "panic")
          => LET id == add_block_index(self_blocks)
                 n == self_blocks'[id]
             IN /\ Has(self_blocks', id)
                /\ n.start = top.start
                /\ n.end - n.start = current_position(body, rd + 1) - top.start
                /\ n.end <= Len(buf)]_vars

\* C30: input_variable_is_param(v) is true exactly for the input variables
\* registered from the function's parameters, and false for those registered
\* from loads, from GetGlobal and as the flow-control input of an if or else
\* node.  The function's frame holds only the inputs of loads and GetGlobal
\* until attach_signature adds the parameters; the node of an if or else has
\* no parameter.
ParamTestTellsOrigin ==
    [][(Reading({"End", "Return"}) /\ rd' = rd + 1 /\ pc' # "panic")
          => IF Len(wstack) = 1
             THEN LET n == nodes'[func_index]
                  IN \A v \in DOMAIN n.input_variables :
                        input_variable_is_param(n, v)
                            <=> v \notin DOMAIN top.node.input_variables
             ELSE top.kind \in {"if", "else"}
                  => LET n == self_blocks'[add_block_index(self_blocks)]
                     IN \A v \in DOMAIN n.input_variables :
                           ~input_variable_is_param(n, v)]_vars

\* the node n has the range and the calls the walker recorded for m
ExpansionOf(n, m) ==
    /\ n.start = m.start
    /\ n.end = m.end
    /\ \A i \in DOMAIN m.calls : Has(n.calls, i) /\ n.calls[i] = m.calls[i]

RECURSIVE ChildrenAreOfTheirKeys(_)
ChildrenAreOfTheirKeys(n) ==
    \A k \in DOMAIN n.children :
        /\ Has(self_nodes, k)
        /\ ExpansionOf(n.children[k], self_nodes[k])
        /\ ChildrenAreOfTheirKeys(n.children[k])

\* C29: every child attached under a key k is the expansion of the node k
\* denotes, the function k or the lifted block registered under k: it has
\* that node's start, end and walker-recorded calls, also when the call is
\* made from a nested block.
ChildIsTheNodeOfItsKey ==
    Expanded => \A k \in DOMAIN tree : ChildrenAreOfTheirKeys(tree[k])

====
